---------------------------- MODULE Spec2Model ----------------------------
(***************************************************************************)
(* Connect 4 (src/connect4.py): the board, win detection, the heuristic,   *)
(* minimax with alpha-beta pruning, the difficulty policy of ai_move and   *)
(* the game loop of Connect4Game.run.                                      *)
(***************************************************************************)
EXTENDS Integers, Sequences, FiniteSets, TLC

(***************************************************************************)
(* Program constants.                                                      *)
(***************************************************************************)
BOARD_WIDTH == 7
BOARD_HEIGHT == 6
EMPTY == 0
PLAYER1 == 1
PLAYER2 == 2

\* Python's None where the code yields a column (or a row, or a winner).
None == 99
\* math.inf: larger than every score the search can produce.
Inf == 2000000000
\* The terminal score of minimax.
WIN_SCORE == 999999999

Rows == 0 .. (BOARD_HEIGHT - 1)
Cols == 0 .. (BOARD_WIDTH - 1)
Players == {PLAYER1, PLAYER2}

\* cols_order of minimax: centre first.
cols_order == <<3, 2, 4, 1, 5, 0, 6>>

\* The board of __init__ and reset_game: rows x columns, row 0 is the top.
EmptyBoard == [row \in Rows |-> [col \in Cols |-> EMPTY]]

\* Every assignment of EMPTY, PLAYER1 or PLAYER2 to the cells.
Boards == [Rows -> [Cols -> {EMPTY, PLAYER1, PLAYER2}]]

Other(player) == IF player = PLAYER1 THEN PLAYER2 ELSE PLAYER1

(***************************************************************************)
(* Board logic.                                                            *)
(***************************************************************************)

\* is_valid_move without its test: every column passes.
is_valid_move_any(b, col) == TRUE

\* is_valid_move: the top cell of the column is empty.
is_valid_move(b, col) == b[0][col] = EMPTY

\* The row drop_piece and start_drop_animation find: the scan runs from the
\* bottom row (BOARD_HEIGHT - 1) up to row 0 and stops at the first empty
\* cell; None when the scan finds no empty cell.
LowestEmptyRow(b, col) ==
    LET empties == {row \in Rows : b[row][col] = EMPTY}
    IN  IF empties = {} THEN None
        ELSE CHOOSE row \in empties : \A r \in empties : r <= row

\* drop_piece with the scan run from the top row down: the piece is written
\* at the first empty cell from the top.
drop_piece_top(b, col, player) ==
    LET empties == {row \in Rows : b[row][col] = EMPTY}
    IN  IF empties = {}
        THEN [board |-> b, row |-> None]
        ELSE LET row == CHOOSE r \in empties : \A e \in empties : r <= e
             IN  [board |-> [b EXCEPT ![row][col] = player], row |-> row]

\* drop_piece with the scan started one row above the bottom row.
drop_piece_skip_bottom(b, col, player) ==
    LET empties == {row \in 0 .. (BOARD_HEIGHT - 2) : b[row][col] = EMPTY}
    IN  IF empties = {}
        THEN [board |-> b, row |-> None]
        ELSE LET row == CHOOSE r \in empties : \A e \in empties : e <= r
             IN  [board |-> [b EXCEPT ![row][col] = player], row |-> row]

\* drop_piece with a write on a full column: the top cell is overwritten and
\* row 0 is returned.
drop_piece_overwrite(b, col, player) ==
    LET row == LowestEmptyRow(b, col)
    IN  IF row = None
        THEN [board |-> [b EXCEPT ![0][col] = player], row |-> 0]
        ELSE [board |-> [b EXCEPT ![row][col] = player], row |-> row]

\* drop_piece: writes player at the first empty cell of the bottom-up scan
\* and returns its row; on a full column the loop ends without a write and
\* the function returns None.
drop_piece(b, col, player) ==
    LET row == LowestEmptyRow(b, col)
    IN  IF row = None
        THEN [board |-> b, row |-> None]
        ELSE [board |-> [b EXCEPT ![row][col] = player], row |-> row]

\* The row undo_move clears: the scan runs from row 0 down and stops at the
\* first occupied cell; None when the column holds no piece.
HighestOccupiedRow(b, col) ==
    LET occupied == {row \in Rows : b[row][col] # EMPTY}
    IN  IF occupied = {} THEN None
        ELSE CHOOSE row \in occupied : \A r \in occupied : row <= r

\* undo_move with the scan run from the bottom row up: the lowest piece of
\* the column is cleared.
undo_move_lowest(b, col) ==
    LET occupied == {row \in Rows : b[row][col] # EMPTY}
    IN  IF occupied = {} THEN b
        ELSE [b EXCEPT ![CHOOSE r \in occupied : \A o \in occupied : o <= r][col] = EMPTY]

\* undo_move without its break: every piece of the column is cleared.
undo_move_no_break(b, col) ==
    [row \in Rows |-> [c \in Cols |-> IF c = col THEN EMPTY ELSE b[row][c]]]

\* undo_move with no write at all.
undo_move_nothing(b, col) == b

\* undo_move: clears the first occupied cell of the top-down scan; nothing
\* is written when the column is empty.
undo_move(b, col) ==
    LET row == HighestOccupiedRow(b, col)
    IN  IF row = None THEN b ELSE [b EXCEPT ![row][col] = EMPTY]

\* check_win: the four loops of the function, in its order (as a function
\* of the pair <<board, player>>).
check_win_of[a \in Boards \X Players] ==
    LET b == a[1]
        player == a[2]
    IN
    \/ \E row \in 0 .. (BOARD_HEIGHT - 1), col \in 0 .. (BOARD_WIDTH - 4) :
          \A i \in 0 .. 3 : b[row][col + i] = player
    \/ \E row \in 0 .. (BOARD_HEIGHT - 4), col \in 0 .. (BOARD_WIDTH - 1) :
          \A i \in 0 .. 3 : b[row + i][col] = player
    \/ \E row \in 0 .. (BOARD_HEIGHT - 4), col \in 0 .. (BOARD_WIDTH - 4) :
          \A i \in 0 .. 3 : b[row + i][col + i] = player
    \/ \E row \in 3 .. (BOARD_HEIGHT - 1), col \in 0 .. (BOARD_WIDTH - 4) :
          \A i \in 0 .. 3 : b[row - i][col + i] = player

\* check_win without its vertical loop.
check_win_no_vertical(b, player) ==
    \/ \E row \in 0 .. (BOARD_HEIGHT - 1), col \in 0 .. (BOARD_WIDTH - 4) :
          \A i \in 0 .. 3 : b[row][col + i] = player
    \/ \E row \in 0 .. (BOARD_HEIGHT - 4), col \in 0 .. (BOARD_WIDTH - 4) :
          \A i \in 0 .. 3 : b[row + i][col + i] = player
    \/ \E row \in 3 .. (BOARD_HEIGHT - 1), col \in 0 .. (BOARD_WIDTH - 4) :
          \A i \in 0 .. 3 : b[row - i][col + i] = player

\* check_win with the up-right diagonal loop started one row late.
check_win_short_diagonal(b, player) ==
    \/ \E row \in 0 .. (BOARD_HEIGHT - 1), col \in 0 .. (BOARD_WIDTH - 4) :
          \A i \in 0 .. 3 : b[row][col + i] = player
    \/ \E row \in 0 .. (BOARD_HEIGHT - 4), col \in 0 .. (BOARD_WIDTH - 1) :
          \A i \in 0 .. 3 : b[row + i][col] = player
    \/ \E row \in 0 .. (BOARD_HEIGHT - 4), col \in 0 .. (BOARD_WIDTH - 4) :
          \A i \in 0 .. 3 : b[row + i][col + i] = player
    \/ \E row \in 4 .. (BOARD_HEIGHT - 1), col \in 0 .. (BOARD_WIDTH - 4) :
          \A i \in 0 .. 3 : b[row - i][col + i] = player

check_win(b, player) == check_win_of[<<b, player>>]

\* is_board_full: no empty cell in row 0.
is_board_full(b) == \A col \in 0 .. (BOARD_WIDTH - 1) : b[0][col] # EMPTY

(***************************************************************************)
(* The heuristic.                                                          *)
(***************************************************************************)

\* evaluate_window with a window of four scored as minimax scores a board
\* with a four.
evaluate_window_win_score(window) ==
    LET Count(player) ==
            (IF window[1] = player THEN 1 ELSE 0) + (IF window[2] = player THEN 1 ELSE 0)
            + (IF window[3] = player THEN 1 ELSE 0) + (IF window[4] = player THEN 1 ELSE 0)
        player2_count == Count(PLAYER2)
        player1_count == Count(PLAYER1)
    IN  IF player2_count > 0 /\ player1_count > 0 THEN 0
        ELSE IF player2_count = 4 THEN 999999999
        ELSE IF player2_count = 3 THEN 100
        ELSE IF player2_count = 2 THEN 10
        ELSE IF player2_count = 1 THEN 1
        ELSE IF player1_count = 4 THEN -999999999
        ELSE IF player1_count = 3 THEN -200
        ELSE IF player1_count = 2 THEN -10
        ELSE IF player1_count = 1 THEN -1
        ELSE 0

\* evaluate_window with the penalty of three Player One pieces equal in
\* magnitude to the reward of three Player Two pieces.
evaluate_window_symmetric(window) ==
    LET Count(player) ==
            (IF window[1] = player THEN 1 ELSE 0) + (IF window[2] = player THEN 1 ELSE 0)
            + (IF window[3] = player THEN 1 ELSE 0) + (IF window[4] = player THEN 1 ELSE 0)
        player2_count == Count(PLAYER2)
        player1_count == Count(PLAYER1)
    IN  IF player2_count > 0 /\ player1_count > 0 THEN 0
        ELSE IF player2_count = 4 THEN 10000
        ELSE IF player2_count = 3 THEN 100
        ELSE IF player2_count = 2 THEN 10
        ELSE IF player2_count = 1 THEN 1
        ELSE IF player1_count = 4 THEN -10000
        ELSE IF player1_count = 3 THEN -100
        ELSE IF player1_count = 2 THEN -10
        ELSE IF player1_count = 1 THEN -1
        ELSE 0

\* evaluate_window: window is a sequence of four cell values.
evaluate_window(window) ==
    LET Count(player) ==
            (IF window[1] = player THEN 1 ELSE 0) + (IF window[2] = player THEN 1 ELSE 0)
            + (IF window[3] = player THEN 1 ELSE 0) + (IF window[4] = player THEN 1 ELSE 0)
        player2_count == Count(PLAYER2)
        player1_count == Count(PLAYER1)
    IN  IF player2_count > 0 /\ player1_count > 0 THEN 0
        ELSE IF player2_count = 4 THEN 10000
        ELSE IF player2_count = 3 THEN 100
        ELSE IF player2_count = 2 THEN 10
        ELSE IF player2_count = 1 THEN 1
        ELSE IF player1_count = 4 THEN -10000
        ELSE IF player1_count = 3 THEN -200
        ELSE IF player1_count = 2 THEN -10
        ELSE IF player1_count = 1 THEN -1
        ELSE 0

\* The windows evaluate_board scans, in its order, each the four cells
\* <<row, col>> of one window: horizontal, vertical, and the two diagonals.
HorizontalWindows ==
    [k \in 1 .. (BOARD_HEIGHT * (BOARD_WIDTH - 3)) |->
        LET row == (k - 1) \div (BOARD_WIDTH - 3)
            col == (k - 1) % (BOARD_WIDTH - 3)
        IN  [i \in 1 .. 4 |-> <<row, col + (i - 1)>>]]

VerticalWindows ==
    [k \in 1 .. ((BOARD_HEIGHT - 3) * BOARD_WIDTH) |->
        LET row == (k - 1) \div BOARD_WIDTH
            col == (k - 1) % BOARD_WIDTH
        IN  [i \in 1 .. 4 |-> <<row + (i - 1), col>>]]

DiagonalDownWindows ==
    [k \in 1 .. ((BOARD_HEIGHT - 3) * (BOARD_WIDTH - 3)) |->
        LET row == (k - 1) \div (BOARD_WIDTH - 3)
            col == (k - 1) % (BOARD_WIDTH - 3)
        IN  [i \in 1 .. 4 |-> <<row + (i - 1), col + (i - 1)>>]]

DiagonalUpWindows ==
    [k \in 1 .. ((BOARD_HEIGHT - 3) * (BOARD_WIDTH - 3)) |->
        LET row == 3 + ((k - 1) \div (BOARD_WIDTH - 3))
            col == (k - 1) % (BOARD_WIDTH - 3)
        IN  [i \in 1 .. 4 |-> <<row - (i - 1), col + (i - 1)>>]]

Windows ==
    HorizontalWindows \o VerticalWindows \o DiagonalDownWindows \o DiagonalUpWindows

\* The window's cell values read off the board.
WindowOf(b, cells) ==
    <<b[cells[1][1]][cells[1][2]], b[cells[2][1]][cells[2][2]],
      b[cells[3][1]][cells[3][2]], b[cells[4][1]][cells[4][2]]>>

RECURSIVE WindowSum(_, _, _)
\* score += evaluate_window(window) over the windows numbered lo .. hi (the
\* sum is split in halves to keep the evaluation shallow).
WindowSum(b, lo, hi) ==
    IF lo = hi THEN evaluate_window(WindowOf(b, Windows[lo]))
    ELSE LET mid == (lo + hi) \div 2
         IN  WindowSum(b, lo, mid) + WindowSum(b, mid + 1, hi)

\* center_count of evaluate_board: +1 per Player Two piece and -1 per Player
\* One piece of column BOARD_WIDTH // 2.
center_count(b) ==
    LET center_col == BOARD_WIDTH \div 2
    IN  Cardinality({row \in Rows : b[row][center_col] = PLAYER2})
        - Cardinality({row \in Rows : b[row][center_col] = PLAYER1})

\* evaluate_board: the window scores plus the centre bonus.
evaluate_board_of[b \in Boards] ==
    WindowSum(b, 1, Len(Windows)) + center_count(b) * 3

evaluate_board(b) == evaluate_board_of[b]

(***************************************************************************)
(* The search.  minimax works on the one board of the game: it writes a    *)
(* piece with drop_piece, recurses, and clears it with undo_move.  The     *)
(* operator threads that board through the call and returns it with the    *)
(* score and the column, so that what the call leaves on the board is part *)
(* of its result.  trace records what held of every board the call passed  *)
(* through (see Observe).                                                  *)
(***************************************************************************)

\* No cell is occupied above an empty cell.
gravity_of[b \in Boards] ==
    \A row \in 0 .. (BOARD_HEIGHT - 2), col \in Cols :
        b[row][col] # EMPTY => b[row + 1][col] # EMPTY

Gravity(b) == gravity_of[b]

\* What is recorded of a board the search is entered with; single: not both
\* players have four in a row on it (here, on a board on which
\* check_win(PLAYER2) was found not to hold).
Observe(b) ==
    [gravity |-> Gravity(b), nested |-> TRUE, single |-> TRUE]

\* What is recorded of a board on which check_win(PLAYER2) holds: single
\* tells that check_win(PLAYER1) does not hold of it as well.
ObserveWon(b) ==
    [gravity |-> Gravity(b), nested |-> TRUE, single |-> ~check_win(b, PLAYER1)]

\* What is recorded of one drop_piece / undo_move pair of the search loop:
\* before is the board drop_piece was called on, d its result, r the board
\* the recursive call returned and u the board after undo_move.
ObservePair(before, d, r, u, col) ==
    [gravity |-> Gravity(u),
     nested  |-> /\ d.row # None
                 /\ HighestOccupiedRow(r, col) = d.row
                 /\ u = before,
     single  |-> TRUE]

Both(s, t) ==
    [gravity |-> s.gravity /\ t.gravity, nested |-> s.nested /\ t.nested,
     single |-> s.single /\ t.single]

CleanTrace == [gravity |-> TRUE, nested |-> TRUE, single |-> TRUE]

Max(x, y) == IF x >= y THEN x ELSE y
Min(x, y) == IF x <= y THEN x ELSE y

\* WinScore without the depth.
WinScore_flat(depth) == WIN_SCORE

\* The score minimax returns on a board where Player Two has four in a
\* row, and where Player One has.
WinScore(depth) == WIN_SCORE + depth

\* LossScore without the sign of the win score.
LossScore_unsigned(depth) == WIN_SCORE - depth

LossScore(depth) == (-WIN_SCORE) - depth

RECURSIVE minimax(_, _, _, _, _)
RECURSIVE MaximizingLoop(_, _, _, _, _, _, _, _)
RECURSIVE MaximizingLoop_ties_last(_, _, _, _, _, _, _, _)
RECURSIVE MinimizingLoop(_, _, _, _, _, _, _, _)

\* MaximizingLoop with >= for > in the comparison with max_eval: of the
\* columns with the best score the last one visited is kept.
MaximizingLoop_ties_last(b, depth, alpha, beta, k, max_eval, best_col, trace) ==
    IF k > Len(cols_order)
    THEN [score |-> max_eval, col |-> best_col, board |-> b, trace |-> trace]
    ELSE LET col == cols_order[k]
         IN  IF ~is_valid_move(b, col)
             THEN MaximizingLoop_ties_last(b, depth, alpha, beta, k + 1, max_eval,
                                           best_col, trace)
             ELSE LET d == drop_piece(b, col, PLAYER2)
                      r == minimax(d.board, depth - 1, alpha, beta, FALSE)
                      u == undo_move(r.board, col)
                      eval_val == r.score
                      better == eval_val >= max_eval
                      max_eval2 == IF better THEN eval_val ELSE max_eval
                      best_col2 == IF better THEN col ELSE best_col
                      alpha2 == Max(alpha, eval_val)
                      trace2 == Both(trace, Both(r.trace, ObservePair(b, d, r.board, u, col)))
                  IN  IF alpha2 >= beta
                      THEN [score |-> max_eval2, col |-> best_col2, board |-> u,
                            trace |-> trace2]
                      ELSE MaximizingLoop_ties_last(u, depth, alpha2, beta, k + 1,
                                                    max_eval2, best_col2, trace2)

\* The loop of the maximizing branch from the k-th entry of cols_order on.
MaximizingLoop(b, depth, alpha, beta, k, max_eval, best_col, trace) ==
    IF k > Len(cols_order)
    THEN [score |-> max_eval, col |-> best_col, board |-> b, trace |-> trace]
    ELSE LET col == cols_order[k]
         IN  IF ~is_valid_move(b, col)
             THEN MaximizingLoop(b, depth, alpha, beta, k + 1, max_eval, best_col, trace)
             ELSE LET d == drop_piece(b, col, PLAYER2)
                      r == minimax(d.board, depth - 1, alpha, beta, FALSE)
                      u == undo_move(r.board, col)
                      eval_val == r.score
                      better == eval_val > max_eval
                      max_eval2 == IF better THEN eval_val ELSE max_eval
                      best_col2 == IF better THEN col ELSE best_col
                      alpha2 == Max(alpha, eval_val)
                      trace2 == Both(trace, Both(r.trace, ObservePair(b, d, r.board, u, col)))
                  IN  IF alpha2 >= beta
                      THEN [score |-> max_eval2, col |-> best_col2, board |-> u,
                            trace |-> trace2]
                      ELSE MaximizingLoop(u, depth, alpha2, beta, k + 1,
                                          max_eval2, best_col2, trace2)

\* The loop of the minimizing branch from the k-th entry of cols_order on.
MinimizingLoop(b, depth, alpha, beta, k, min_eval, best_col, trace) ==
    IF k > Len(cols_order)
    THEN [score |-> min_eval, col |-> best_col, board |-> b, trace |-> trace]
    ELSE LET col == cols_order[k]
         IN  IF ~is_valid_move(b, col)
             THEN MinimizingLoop(b, depth, alpha, beta, k + 1, min_eval, best_col, trace)
             ELSE LET d == drop_piece(b, col, PLAYER1)
                      r == minimax(d.board, depth - 1, alpha, beta, TRUE)
                      u == undo_move(r.board, col)
                      eval_val == r.score
                      better == eval_val < min_eval
                      min_eval2 == IF better THEN eval_val ELSE min_eval
                      best_col2 == IF better THEN col ELSE best_col
                      beta2 == Min(beta, eval_val)
                      trace2 == Both(trace, Both(r.trace, ObservePair(b, d, r.board, u, col)))
                  IN  IF alpha >= beta2
                      THEN [score |-> min_eval2, col |-> best_col2, board |-> u,
                            trace |-> trace2]
                      ELSE MinimizingLoop(u, depth, alpha, beta2, k + 1,
                                          min_eval2, best_col2, trace2)

\* The arguments of minimax, with the board it works on.
MinimaxArgs ==
    [b : Boards, depth : Nat, alpha : Int, beta : Int, maximizing_player : BOOLEAN]

\* minimax(depth, alpha, beta, maximizing_player) on board b, as a function
\* of the record of its arguments.
minimax_of[a \in MinimaxArgs] ==
    LET b == a.b
        depth == a.depth
        alpha == a.alpha
        beta == a.beta
        maximizing_player == a.maximizing_player
    IN
    IF check_win(b, PLAYER2)
    THEN [score |-> WinScore(depth), col |-> None, board |-> b, trace |-> ObserveWon(b)]
    ELSE IF check_win(b, PLAYER1)
    THEN [score |-> LossScore(depth), col |-> None, board |-> b, trace |-> Observe(b)]
    ELSE IF is_board_full(b)
    THEN [score |-> 0, col |-> None, board |-> b, trace |-> Observe(b)]
    ELSE IF depth = 0
    THEN [score |-> evaluate_board(b), col |-> None, board |-> b, trace |-> Observe(b)]
    ELSE IF maximizing_player
    THEN MaximizingLoop(b, depth, alpha, beta, 1, -Inf, None, Observe(b))
    ELSE MinimizingLoop(b, depth, alpha, beta, 1, Inf, None, Observe(b))

minimax(b, depth, alpha, beta, maximizing_player) ==
    minimax_of[[b |-> b, depth |-> depth, alpha |-> alpha, beta |-> beta,
                maximizing_player |-> maximizing_player]]


(***************************************************************************)
(* ai_move: the difficulty policy.                                         *)
(***************************************************************************)

Difficulties == {"easy", "medium", "hard"}

\* DIFFICULTY_LEVELS.
DIFFICULTY_LEVELS == [easy |-> 2, medium |-> 4, hard |-> 7]

\* random.seed(42) runs at the top of every ai_move call, so the one
\* random.random() of the call always yields the generator's first output
\* for that seed, 0.6394267984578837: in thousandths, rounded down.
FirstRandom == 639
\* The 0.3 that output is compared with, in thousandths.
RandomMoveChance == 300

\* valid_cols of ai_move: the legal columns in ascending order.
RECURSIVE ValidColsFrom(_, _)
ValidColsFrom(b, col) ==
    IF col >= BOARD_WIDTH THEN << >>
    ELSE (IF is_valid_move(b, col) THEN <<col>> ELSE << >>) \o ValidColsFrom(b, col + 1)

valid_cols(b) == ValidColsFrom(b, 0)

\* The indices random.choice(valid_cols) can draw in ai_move: the draw is
\* made only on the random branch of easy mode.
Picks(b, difficulty) ==
    IF difficulty = "easy" /\ valid_cols(b) # << >> /\ FirstRandom < RandomMoveChance
    THEN 1 .. Len(valid_cols(b))
    ELSE {1}

RECURSIVE DeepeningLoop_keep_first(_, _, _, _, _, _)
\* The deepening loop keeping the column of its first iteration.
DeepeningLoop_keep_first(b, player, d, iters, best_col, trace) ==
    IF d > iters
    THEN [col |-> best_col, board |-> b, trace |-> trace]
    ELSE LET r == minimax(b, d, -Inf, Inf, player = PLAYER2)
         IN  DeepeningLoop_keep_first(r.board, player, d + 1, iters,
                           IF best_col = None THEN r.col ELSE best_col,
                           Both(trace, r.trace))

RECURSIVE DeepeningLoop(_, _, _, _, _, _)
\* The iterative deepening loop of ai_move from iteration d on.  iters is
\* the number of iterations that start before time.time() - start_time
\* exceeds max_time (the check runs at the top of each iteration only).
DeepeningLoop(b, player, d, iters, best_col, trace) ==
    IF d > iters
    THEN [col |-> best_col, board |-> b, trace |-> trace]
    ELSE LET r == minimax(b, d, -Inf, Inf, player = PLAYER2)
         IN  DeepeningLoop(r.board, player, d + 1, iters,
                           IF r.col # None THEN r.col ELSE best_col,
                           Both(trace, r.trace))

\* ai_move(player) at the given difficulty.  iters: see DeepeningLoop (at
\* most the depth of the difficulty); pick: the index random.choice draws.
ai_move(b, difficulty, player, iters, pick) ==
    LET depth == DIFFICULTY_LEVELS[difficulty]
    IN  IF difficulty = "easy"
        THEN IF valid_cols(b) = << >>
             THEN [col |-> None, board |-> b, trace |-> CleanTrace]
             ELSE IF FirstRandom < RandomMoveChance
             THEN [col |-> valid_cols(b)[pick], board |-> b, trace |-> CleanTrace]
             ELSE LET r == minimax(b, depth, -Inf, Inf, player = PLAYER2)
                  IN  [col |-> r.col, board |-> r.board, trace |-> r.trace]
        ELSE DeepeningLoop(b, player, 1, Min(iters, depth), None, CleanTrace)


(***************************************************************************)
(* The game: the state of Connect4Game and the loop of run().              *)
(*                                                                         *)
(* pc is the place in run(): "menu" (the mode and difficulty menus),       *)
(* "update" (the top of a frame, before update_animation), "events" (the   *)
(* event loop of the frame), "ai" (the AI block of the frame), "over" (the *)
(* game loop was left) and "exit".  "call" marks the state a direct call   *)
(* of a method left behind (SpecSearch, SpecUnit).                         *)
(*                                                                         *)
(* The position and velocity of a falling piece are not modelled: whether  *)
(* the piece reaches its target row in a frame is left open.               *)
(*                                                                         *)
(* script, free and speed are the environment: the clicks that land on a   *)
(* playable column follow script, or are free (any column) while free > 0; *)
(* speed is the number of deepening iterations the 5 s budget of ai_move   *)
(* lets start in this game.                                                *)
(*                                                                         *)
(* last records the most recent call of the search in the game (or, in     *)
(* SpecSearch and SpecUnit, of the method called): its arguments, the      *)
(* board before and after, and its result.                                 *)
(***************************************************************************)
VARIABLES board, current_player, game_over, winner, mode, difficulty,
          running, animating, bounce_count, drop_col, drop_player,
          drop_target_row, pc, script, free, speed, last

vars == <<board, current_player, game_over, winner, mode, difficulty,
          running, animating, bounce_count, drop_col, drop_player,
          drop_target_row, pc, script, free, speed, last>>

game == <<board, current_player, game_over, winner, animating, bounce_count,
          drop_col, drop_player, drop_target_row>>
drop == <<animating, bounce_count, drop_col, drop_player, drop_target_row>>
env == <<script, free, speed>>

Modes == {"human_human", "human_ai", "ai_ai"}

NoCall ==
    [op |-> "none", before |-> EmptyBoard, after |-> EmptyBoard,
     depth |-> 0, maximizing |-> FALSE, difficulty |-> "none", player |-> None,
     iters |-> 0, score |-> 0, col |-> None, row |-> None, result |-> FALSE,
     window |-> << >>, trace |-> CleanTrace]

\* __init__.
Init ==
    /\ board = EmptyBoard
    /\ current_player = PLAYER1
    /\ game_over = FALSE
    /\ winner = None
    /\ mode = "none"
    /\ difficulty = "none"
    /\ running = TRUE
    /\ animating = FALSE
    /\ bounce_count = 0
    /\ drop_col = None
    /\ drop_player = None
    /\ drop_target_row = None
    /\ pc = "menu"
    /\ script = << >>
    /\ free = 0
    /\ speed = 0
    /\ last = NoCall

\* reset_game without its assignment to animating.
reset_game_keeps_drop ==
    /\ board' = EmptyBoard
    /\ current_player' = PLAYER1
    /\ game_over' = FALSE
    /\ winner' = None
    /\ UNCHANGED animating
    /\ bounce_count' = 0

\* reset_game.
reset_game ==
    /\ board' = EmptyBoard
    /\ current_player' = PLAYER1
    /\ game_over' = FALSE
    /\ winner' = None
    /\ animating' = FALSE
    /\ bounce_count' = 0

\* start_drop_animation with the scan run from the top row down.
start_drop_animation_top(b, col, player) ==
    IF \A row \in Rows : b[row][col] # EMPTY
    THEN UNCHANGED drop
    ELSE /\ animating' = TRUE
         /\ drop_col' = col
         /\ drop_player' = player
         /\ drop_target_row' = CHOOSE row \in Rows :
                /\ b[row][col] = EMPTY
                /\ \A r \in Rows : r < row => b[r][col] # EMPTY
         /\ bounce_count' = 0

\* start_drop_animation(col, player) called with board b: the fields it
\* sets when the column has an empty cell; nothing is set (it returns False)
\* on a full column.
start_drop_animation(b, col, player) ==
    LET target_row == LowestEmptyRow(b, col)
    IN  IF target_row = None
        THEN UNCHANGED drop
        ELSE /\ animating' = TRUE
             /\ drop_col' = col
             /\ drop_player' = player
             /\ drop_target_row' = target_row
             /\ bounce_count' = 0

(***************************************************************************)
(* run(): the menus.                                                       *)
(***************************************************************************)

\* show_mode_menu, show_difficulty_menu (skipped for Human vs Human) and
\* reset_game; the game loop is entered.
StartGame(m, d, s, f, k) ==
    /\ pc = "menu"
    /\ running
    /\ mode' = m
    /\ difficulty' = IF m = "human_human" THEN difficulty ELSE d
    /\ reset_game
    /\ UNCHANGED <<running, drop_col, drop_player, drop_target_row>>
    /\ last' = NoCall
    /\ script' = s
    /\ free' = f
    /\ speed' = k
    /\ pc' = "update"

\* The window is closed in the mode menu: running is cleared and run()
\* leaves its loop.
QuitMenu ==
    /\ pc = "menu"
    /\ running
    /\ running' = FALSE
    /\ pc' = "exit"
    /\ UNCHANGED <<game, mode, difficulty, env, last>>

\* The window is closed in the difficulty menu (shown unless the mode is
\* Human vs Human): menu_selection clears running and returns None, and
\* selected.lower() raises; run() logs the error and exits.
QuitDifficultyMenu(m) ==
    /\ pc = "menu"
    /\ running
    /\ m # "human_human"
    /\ mode' = m
    /\ running' = FALSE
    /\ pc' = "exit"
    /\ UNCHANGED <<game, difficulty, env, last>>

(***************************************************************************)
(* run(): one frame of the game loop.                                      *)
(***************************************************************************)

\* update_animation when nothing is dropping, or when the piece has not
\* reached its target row (only its position and velocity change).
UpdateAnimationFall ==
    /\ pc = "update"
    /\ pc' = "events"
    /\ UNCHANGED <<game, mode, difficulty, running, env, last>>

\* update_animation when the piece hits its target row for the first time:
\* it bounces.
UpdateAnimationBounce ==
    /\ pc = "update"
    /\ animating
    /\ bounce_count < 1
    /\ bounce_count' = bounce_count + 1
    /\ pc' = "events"
    /\ UNCHANGED <<board, current_player, game_over, winner, animating,
                   drop_col, drop_player, drop_target_row,
                   mode, difficulty, running, env, last>>

\* The board after the final placement of update_animation.
Placed == [board EXCEPT ![drop_target_row][drop_col] = drop_player]

\* UpdateAnimationLand with the two tests of the outcome in the other
\* order: is_board_full first.
UpdateAnimationLand_full_first ==
    /\ pc = "update"
    /\ animating
    /\ bounce_count >= 1
    /\ board' = Placed
    /\ IF is_board_full(Placed)
       THEN game_over' = TRUE /\ UNCHANGED winner
       ELSE IF check_win(Placed, drop_player)
       THEN game_over' = TRUE /\ winner' = drop_player
       ELSE UNCHANGED <<game_over, winner>>
    /\ animating' = FALSE
    /\ current_player' = IF current_player = PLAYER1 THEN PLAYER2 ELSE PLAYER1
    /\ pc' = "events"
    /\ UNCHANGED <<bounce_count, drop_col, drop_player, drop_target_row,
                   mode, difficulty, running, env, last>>

\* update_animation when the piece hits its target row after its bounce:
\* the piece is written to the board, the outcome is stored and the player
\* is switched.
UpdateAnimationLand ==
    /\ pc = "update"
    /\ animating
    /\ bounce_count >= 1
    /\ board' = Placed
    /\ IF check_win(Placed, drop_player)
       THEN game_over' = TRUE /\ winner' = drop_player
       ELSE IF is_board_full(Placed)
       THEN game_over' = TRUE /\ UNCHANGED winner
       ELSE UNCHANGED <<game_over, winner>>
    /\ animating' = FALSE
    /\ current_player' = IF current_player = PLAYER1 THEN PLAYER2 ELSE PLAYER1
    /\ pc' = "events"
    /\ UNCHANGED <<bounce_count, drop_col, drop_player, drop_target_row,
                   mode, difficulty, running, env, last>>

\* The condition under which run() hands an event to handle_human_input.
HumanTurn ==
    \/ mode = "human_human"
    \/ (mode = "human_ai" /\ current_player = PLAYER1)

\* A pygame.QUIT event of the frame.
EventQuit ==
    /\ pc = "events"
    /\ running
    /\ running' = FALSE
    /\ UNCHANGED <<game, mode, difficulty, pc, env, last>>

\* EventClick without handle_human_input's test of animating: a click
\* starts a drop while a piece is dropping.
EventClick_while_animating(col) ==
    /\ pc = "events"
    /\ IF HumanTurn /\ is_valid_move(board, col)
       THEN /\ start_drop_animation(board, col, current_player)
            /\ \/ /\ script # << >>
                  /\ col = Head(script)
                  /\ script' = Tail(script)
                  /\ UNCHANGED free
               \/ /\ script = << >>
                  /\ free > 0
                  /\ free' = free - 1
                  /\ UNCHANGED script
       ELSE UNCHANGED <<drop, script, free>>
    /\ UNCHANGED <<board, current_player, game_over, winner,
                   mode, difficulty, running, pc, speed, last>>

\* A MOUSEBUTTONDOWN event of the frame at column col = pos[0] // CELL_SIZE:
\* handle_human_input starts a drop when nothing is dropping and the column
\* is playable.  A click that starts a drop is the next click of the script,
\* or a free one.
EventClick(col) ==
    /\ pc = "events"
    /\ IF HumanTurn /\ ~animating /\ is_valid_move(board, col)
       THEN /\ start_drop_animation(board, col, current_player)
            /\ \/ /\ script # << >>
                  /\ col = Head(script)
                  /\ script' = Tail(script)
                  /\ UNCHANGED free
               \/ /\ script = << >>
                  /\ free > 0
                  /\ free' = free - 1
                  /\ UNCHANGED script
       ELSE UNCHANGED <<drop, script, free>>
    /\ UNCHANGED <<board, current_player, game_over, winner,
                   mode, difficulty, running, pc, speed, last>>

\* The event loop of the frame ends.
EventsDone ==
    /\ pc = "events"
    /\ pc' = "ai"
    /\ UNCHANGED <<game, mode, difficulty, running, env, last>>

\* The while condition of the game loop without its test of game_over.
AfterFrame_plays_on == IF running THEN "update" ELSE "over"

\* Where run() goes after a frame: the while condition of the game loop.
AfterFrame == IF ~game_over /\ running THEN "update" ELSE "over"

\* The AI block of the frame when it calls ai_move(player): in Human vs AI
\* for Player Two, in AI vs AI (run_ai_move) for the current player.  A
\* column that is not None starts the drop.
AiMoves(pick) ==
    /\ pc = "ai"
    /\ ~animating
    /\ \/ (mode = "human_ai" /\ current_player = PLAYER2)
       \/ mode = "ai_ai"
    /\ \E player \in {IF mode = "human_ai" THEN PLAYER2 ELSE current_player} :
       \E r \in {ai_move(board, difficulty, player, speed, pick)} :
           /\ board' = r.board
           /\ last' = [NoCall EXCEPT !.op = "ai_move", !.before = board,
                          !.after = r.board, !.difficulty = difficulty,
                          !.player = player, !.iters = speed,
                          !.col = r.col, !.trace = r.trace]
           /\ IF r.col # None
              THEN start_drop_animation(r.board, r.col, player)
              ELSE UNCHANGED drop
    /\ pc' = AfterFrame
    /\ UNCHANGED <<current_player, game_over, winner, mode, difficulty,
                   running, env>>

\* The AI block of the frame when it calls nothing: a piece is dropping, or
\* it is a human's turn.
AiIdle ==
    /\ pc = "ai"
    /\ \/ animating
       \/ mode = "human_human"
       \/ (mode = "human_ai" /\ current_player # PLAYER2)
    /\ pc' = AfterFrame
    /\ UNCHANGED <<game, mode, difficulty, running, env, last>>

(***************************************************************************)
(* run(): after the game loop.                                             *)
(***************************************************************************)

\* display_final_board_with_delay and show_game_over_menu answered Yes: the
\* outer loop of run() shows the menus again.
PlayAgain ==
    /\ pc = "over"
    /\ running
    /\ pc' = "menu"
    /\ UNCHANGED <<game, mode, difficulty, running, env, last>>

\* The window is closed on the final board or in the game over menu, or the
\* answer is No, or the game loop was left by a QUIT event.
Leave ==
    /\ pc = "over"
    /\ running' = FALSE
    /\ pc' = "exit"
    /\ UNCHANGED <<game, mode, difficulty, env, last>>


(***************************************************************************)
(* Bounds and inputs.                                                      *)
(***************************************************************************)

\* The clicks of a game that follow no script.
MaxFree == 1
\* The deepening iterations the time budget lets start, at most.
MaxIter == 2

\* A game of 42 clicks that fills the board with no four-in-a-row.
DrawGame ==
    <<4, 3, 6, 0, 1, 4, 5, 5, 1, 1, 5, 0, 1, 6, 0, 1, 5, 5, 1, 0, 4,
      6, 3, 2, 6, 6, 0, 4, 6, 5, 2, 0, 4, 2, 4, 2, 2, 2, 3, 3, 3, 3>>

\* A game of 42 clicks whose last piece fills the board and completes the
\* first four-in-a-row (Player Two's).
FillWinGame ==
    <<4, 5, 6, 4, 4, 4, 3, 4, 1, 2, 3, 2, 5, 3, 0, 6, 1, 1, 4, 6, 0,
      2, 2, 3, 0, 5, 6, 0, 3, 1, 1, 0, 0, 5, 3, 6, 1, 2, 6, 2, 5, 5>>

\* A game of seven clicks that Player One wins in column 3.
WinGame == <<3, 0, 3, 0, 3, 0, 3>>

Scripts == {<< >>, WinGame, DrawGame, FillWinGame}

(***************************************************************************)
(* The game from the construction of Connect4Game.                         *)
(***************************************************************************)
Next ==
    \/ \E m \in Modes, d \in Difficulties, s \in Scripts, k \in 0 .. MaxIter :
          /\ (m = "ai_ai" => s = << >>)
          /\ (m = "human_human" \/ d = "easy" => k = 0)
          /\ StartGame(m, d, s, IF m = "ai_ai" THEN 0 ELSE MaxFree, k)
    \/ QuitMenu
    \/ \E m \in Modes : QuitDifficultyMenu(m)
    \/ UpdateAnimationFall
    \/ UpdateAnimationBounce
    \/ UpdateAnimationLand
    \/ EventQuit
    \/ \E col \in Cols : EventClick(col)
    \/ EventsDone
    \/ \E pick \in Picks(board, difficulty) : AiMoves(pick)
    \/ AiIdle
    \/ PlayAgain
    \/ Leave

Spec == Init /\ [][Next]_vars

(***************************************************************************)
(* Direct calls of the search on boards reached by play.  A Human vs Human *)
(* game follows one of SearchScripts from reset_game; between two moves,   *)
(* minimax or ai_move is called on the board and the call is recorded in   *)
(* last.                                                                   *)
(***************************************************************************)

\* The deepest search called directly.
MaxDepth == 3

\* Positions: the empty board; Player Two to move with a four to complete in
\* column 0; Player Two to move with Player One's three in column 3 to block;
\* Player One to move with Player Two's three in column 0 to block; Player
\* One to move with a four of its own in column 3 and Player Two's three in
\* column 0; Player Two to move against Player One's open three on the
\* bottom row (columns 0 and 4 both complete it); Player Two to move where
\* blocking column 4 lets Player One complete a four on top of the block;
\* boards with full columns; a full board.
SearchScripts ==
    {<< >>,
     <<6, 0, 6, 0, 5, 0, 5>>,
     <<3, 0, 3, 0, 3>>,
     <<3, 0, 3, 0, 2, 0>>,
     <<3, 0, 3, 0, 3, 0>>,
     <<1, 1, 2, 2, 3>>,
     <<1, 0, 1, 0, 2, 6, 2, 6, 3, 5, 3>>,
     SubSeq(DrawGame, 1, 36),
     SubSeq(DrawGame, 1, 40),
     DrawGame}

\* __init__, then Human vs Human chosen in show_mode_menu.
InitSearch ==
    /\ board = EmptyBoard
    /\ current_player = PLAYER1
    /\ game_over = FALSE
    /\ winner = None
    /\ mode = "human_human"
    /\ difficulty = "none"
    /\ running = TRUE
    /\ animating = FALSE
    /\ bounce_count = 0
    /\ drop_col = None
    /\ drop_player = None
    /\ drop_target_row = None
    /\ pc = "menu"
    /\ script \in SearchScripts
    /\ free = 0
    /\ speed = 0
    /\ last = NoCall

\* show_difficulty_menu returns at once and reset_game runs.
EnterGame ==
    /\ pc = "menu"
    /\ reset_game
    /\ pc' = "update"
    /\ UNCHANGED <<mode, difficulty, running, drop_col, drop_player,
                   drop_target_row, env, last>>

\* The event loop of a frame in which nothing is dropping.
AtPosition == pc = "events" /\ ~animating

\* minimax(depth, -math.inf, math.inf, maximizing_player) called directly.
CallMinimax(depth, maximizing_player) ==
    /\ AtPosition
    /\ \E r \in {minimax(board, depth, -Inf, Inf, maximizing_player)} :
          /\ board' = r.board
          /\ last' = [NoCall EXCEPT !.op = "minimax", !.before = board,
                         !.after = r.board, !.depth = depth,
                         !.maximizing = maximizing_player,
                         !.score = r.score, !.col = r.col, !.trace = r.trace]
    /\ pc' = "call"
    /\ UNCHANGED <<current_player, game_over, winner, drop, mode, difficulty,
                   running, env>>

\* ai_move(player) called directly with self.difficulty = d.
CallAiMove(d, player, iters, pick) ==
    /\ AtPosition
    /\ \E r \in {ai_move(board, d, player, iters, pick)} :
          /\ board' = r.board
          /\ last' = [NoCall EXCEPT !.op = "ai_move", !.before = board,
                         !.after = r.board, !.difficulty = d,
                         !.player = player, !.iters = iters,
                         !.col = r.col, !.trace = r.trace]
    /\ difficulty' = d
    /\ pc' = "call"
    /\ UNCHANGED <<current_player, game_over, winner, drop, mode, running, env>>

\* The boards on which ai_move is called with no cut-off: those with at most
\* MaxEmpty empty cells.
MaxEmpty == 8

EmptyCells(b) == Cardinality({cell \in Rows \X Cols : b[cell[1]][cell[2]] = EMPTY})

\* ai_move(player) called directly, at medium or hard difficulty, with the
\* time limit never exceeded: every iteration 1 .. depth starts.
CallAiMoveUncut(d, player) ==
    /\ EmptyCells(board) <= MaxEmpty
    /\ CallAiMove(d, player, DIFFICULTY_LEVELS[d], 1)

NextSearch ==
    \/ EnterGame
    \/ UpdateAnimationFall
    \/ UpdateAnimationBounce
    \/ UpdateAnimationLand
    \/ \E col \in Cols : EventClick(col)
    \/ EventsDone
    \/ AiIdle
    \/ \E depth \in 0 .. MaxDepth, maximizing_player \in BOOLEAN :
          CallMinimax(depth, maximizing_player)
    \/ \E d \in Difficulties, player \in Players, iters \in 0 .. MaxIter :
          \E pick \in Picks(board, d) : CallAiMove(d, player, iters, pick)
    \/ \E d \in {"medium", "hard"}, player \in Players : CallAiMoveUncut(d, player)

SpecSearch == InitSearch /\ [][NextSearch]_vars

(***************************************************************************)
(* Direct calls of minimax at the end of a scripted game.                  *)
(***************************************************************************)

\* A game of 35 clicks after which Player Two, to move, loses in every
\* column: in two plies in column 4, in four plies in column 3.
LossGame ==
    <<5, 0, 1, 5, 2, 0, 2, 6, 0, 6, 2, 1, 1, 1, 4, 0, 5, 5, 1, 5, 4, 1,
      5, 2, 0, 2, 6, 0, 6, 4, 2, 6, 6, 4, 4>>

\* A game of 35 clicks after which Player Two, to move, wins in five plies
\* and no sooner.
ForcedWinGame ==
    <<5, 0, 3, 3, 6, 5, 5, 6, 5, 6, 0, 0, 5, 3, 0, 5, 2, 1, 1, 6, 3, 1,
      1, 2, 6, 0, 1, 1, 0, 6, 3, 3, 2, 2, 2>>

\* Positions: the empty board; positions of SearchScripts; Player Two to
\* move with a win in three plies; the boards LossGame and ForcedWinGame
\* lead to; a board Player One has won, a board Player Two has won, a full
\* board with no four-in-a-row.
RefScripts ==
    {<< >>,
     <<3, 0, 3, 0, 3>>,
     <<3, 0, 3, 0, 2, 0>>,
     <<1, 1, 2, 2, 3>>,
     <<1, 0, 1, 0, 2, 6, 2, 6, 3, 5, 3>>,
     <<0, 2, 0, 3, 6>>,
     SubSeq(DrawGame, 1, 36),
     SubSeq(DrawGame, 1, 40),
     LossGame,
     ForcedWinGame,
     WinGame,
     <<6, 0, 6, 0, 5, 0, 5, 0>>,
     DrawGame}

\* __init__, then Human vs Human chosen in show_mode_menu.
InitRef ==
    /\ board = EmptyBoard
    /\ current_player = PLAYER1
    /\ game_over = FALSE
    /\ winner = None
    /\ mode = "human_human"
    /\ difficulty = "none"
    /\ running = TRUE
    /\ animating = FALSE
    /\ bounce_count = 0
    /\ drop_col = None
    /\ drop_player = None
    /\ drop_target_row = None
    /\ pc = "menu"
    /\ script \in RefScripts
    /\ free = 0
    /\ speed = 0
    /\ last = NoCall

\* minimax called directly once every click of the script is played.
CallMinimaxAtEnd(depth, maximizing_player) ==
    /\ script = << >>
    /\ CallMinimax(depth, maximizing_player)

\* The same on a board with at most MaxEmpty empty cells, at the depths
\* above MaxDepth up to the depth of hard difficulty.
CallMinimaxDeep(depth, maximizing_player) ==
    /\ EmptyCells(board) <= MaxEmpty
    /\ CallMinimaxAtEnd(depth, maximizing_player)

NextRef ==
    \/ EnterGame
    \/ UpdateAnimationFall
    \/ UpdateAnimationBounce
    \/ UpdateAnimationLand
    \/ \E col \in Cols : EventClick(col)
    \/ EventsDone
    \/ AiIdle
    \/ \E depth \in 0 .. MaxDepth, maximizing_player \in BOOLEAN :
          CallMinimaxAtEnd(depth, maximizing_player)
    \/ \E depth \in (MaxDepth + 1) .. DIFFICULTY_LEVELS["hard"], maximizing_player \in BOOLEAN :
          CallMinimaxDeep(depth, maximizing_player)

SpecRef == InitRef /\ [][NextRef]_vars

(***************************************************************************)
(* Direct calls of drop_piece, undo_move and check_win on boards built     *)
(* around one window: the four cells of the window hold one player's       *)
(* pieces, but for at most one cell that holds the other player's, and the *)
(* cells below them hold the other player's pieces.                        *)
(***************************************************************************)

\* The cells of window number k as a set.
WindowCells(k) == {Windows[k][i] : i \in 1 .. 4}

\* The board built around window k for player: gap is the index of the
\* window's cell given to the other player (0: none).
LineBoard(k, player, gap) ==
    [row \in Rows |-> [col \in Cols |->
        IF <<row, col>> \in WindowCells(k)
        THEN IF gap # 0 /\ Windows[k][gap] = <<row, col>> THEN Other(player) ELSE player
        ELSE IF \E cell \in WindowCells(k) : cell[2] = col /\ cell[1] < row
        THEN Other(player)
        ELSE EMPTY]]

UnitBoards ==
    {EmptyBoard} \cup
    {LineBoard(k, player, gap) : k \in 1 .. Len(Windows), player \in Players, gap \in 0 .. 4}

InitUnit ==
    /\ board \in UnitBoards
    /\ current_player = PLAYER1
    /\ game_over = FALSE
    /\ winner = None
    /\ mode = "none"
    /\ difficulty = "none"
    /\ running = TRUE
    /\ animating = FALSE
    /\ bounce_count = 0
    /\ drop_col = None
    /\ drop_player = None
    /\ drop_target_row = None
    /\ pc = "unit"
    /\ script = << >>
    /\ free = 0
    /\ speed = 0
    /\ last = NoCall

\* drop_piece(col, player) called directly.
CallDropPiece(col, player) ==
    /\ pc = "unit"
    /\ \E d \in {drop_piece(board, col, player)} :
          /\ board' = d.board
          /\ last' = [NoCall EXCEPT !.op = "drop_piece", !.before = board,
                         !.after = d.board, !.col = col, !.player = player,
                         !.row = d.row]
    /\ pc' = "call"
    /\ UNCHANGED <<current_player, game_over, winner, drop, mode, difficulty,
                   running, env>>

\* drop_piece(col, player) and then undo_move(col), called directly.
CallDropUndo(col, player) ==
    /\ pc = "unit"
    /\ \E d \in {drop_piece(board, col, player)} :
       \E u \in {undo_move(d.board, col)} :
          /\ board' = u
          /\ last' = [NoCall EXCEPT !.op = "drop_undo", !.before = board,
                         !.after = u, !.col = col, !.player = player,
                         !.row = d.row]
    /\ pc' = "call"
    /\ UNCHANGED <<current_player, game_over, winner, drop, mode, difficulty,
                   running, env>>

\* check_win(player) called directly.
CallCheckWin(player) ==
    /\ pc = "unit"
    /\ last' = [NoCall EXCEPT !.op = "check_win", !.before = board,
                   !.after = board, !.player = player,
                   !.result = check_win(board, player)]
    /\ pc' = "call"
    /\ UNCHANGED <<game, mode, difficulty, running, env>>

\* The position a subscript col selects in a Python list of BOARD_WIDTH
\* cells (self.board[0][col]): 0 .. BOARD_WIDTH - 1 select themselves, the
\* negative subscripts -BOARD_WIDTH .. -1 count from the end of the list, and
\* every other integer raises IndexError (None here).
RowSubscript(col) ==
    IF col \in Cols THEN col
    ELSE IF col \in (0 - BOARD_WIDTH) .. (0 - 1) THEN col + BOARD_WIDTH
    ELSE None

\* The outcome of is_valid_move(col) for any integer col: "True", "False",
\* or "IndexError" when the subscript raises.
is_valid_move_outcome(b, col) ==
    LET i == RowSubscript(col)
    IN  IF i = None THEN "IndexError"
        ELSE IF is_valid_move(b, i) THEN "True" ELSE "False"

\* The columns passed to is_valid_move: MaxOutside integers beyond the
\* subscripts a Python list of BOARD_WIDTH cells accepts, on either side.
MaxOutside == 2

ProbeCols == (0 - BOARD_WIDTH - MaxOutside) .. (BOARD_WIDTH - 1 + MaxOutside)

\* is_valid_move(col) called directly.
CallIsValidMove(col) ==
    /\ pc = "unit"
    /\ last' = [NoCall EXCEPT !.op = "is_valid_move", !.before = board,
                   !.after = board, !.col = col,
                   !.result = is_valid_move_outcome(board, col)]
    /\ pc' = "call"
    /\ UNCHANGED <<game, mode, difficulty, running, env>>

\* What start_drop_animation(col, player) returns: False on a full column,
\* True otherwise.
start_drop_animation_returns(b, col) == LowestEmptyRow(b, col) # None

\* start_drop_animation(col, player) called directly.
CallStartDropAnimation(col, player) ==
    /\ pc = "unit"
    /\ start_drop_animation(board, col, player)
    /\ last' = [NoCall EXCEPT !.op = "start_drop_animation", !.before = board,
                   !.after = board, !.col = col, !.player = player,
                   !.result = start_drop_animation_returns(board, col)]
    /\ pc' = "call"
    /\ UNCHANGED <<board, current_player, game_over, winner, mode, difficulty,
                   running, env>>

\* The windows evaluate_window can be given: four cell values.
CellWindows == {EMPTY, PLAYER1, PLAYER2} \X {EMPTY, PLAYER1, PLAYER2}
               \X {EMPTY, PLAYER1, PLAYER2} \X {EMPTY, PLAYER1, PLAYER2}

\* evaluate_window(window) called directly.
CallEvaluateWindow(window) ==
    /\ pc = "unit"
    /\ last' = [NoCall EXCEPT !.op = "evaluate_window", !.before = board,
                   !.after = board, !.window = window,
                   !.score = evaluate_window(window)]
    /\ pc' = "call"
    /\ UNCHANGED <<game, mode, difficulty, running, env>>

\* evaluate_board() called directly.
CallEvaluateBoard ==
    /\ pc = "unit"
    /\ last' = [NoCall EXCEPT !.op = "evaluate_board", !.before = board,
                   !.after = board, !.score = evaluate_board(board)]
    /\ pc' = "call"
    /\ UNCHANGED <<game, mode, difficulty, running, env>>

NextUnit ==
    \/ \E col \in Cols, player \in Players : CallDropPiece(col, player)
    \/ \E col \in Cols, player \in Players : CallDropUndo(col, player)
    \/ \E player \in Players : CallCheckWin(player)
    \/ \E col \in ProbeCols : CallIsValidMove(col)
    \/ \E col \in Cols, player \in Players : CallStartDropAnimation(col, player)
    \/ \E window \in CellWindows : CallEvaluateWindow(window)
    \/ CallEvaluateBoard

SpecUnit == InitUnit /\ [][NextUnit]_vars

(***************************************************************************)
(* Properties.                                                             *)
(***************************************************************************)

\* The four directions of a line: right, down, down-right, up-right.
Directions == {<<0, 1>>, <<1, 0>>, <<1, 1>>, <<-1, 1>>}

\* player occupies four consecutive cells of the grid in one direction.
FourInARow(b, player) ==
    \E row \in Rows, col \in Cols, dir \in Directions :
        \A i \in 0 .. 3 :
            /\ row + i * dir[1] \in Rows
            /\ col + i * dir[2] \in Cols
            /\ b[row + i * dir[1]][col + i * dir[2]] = player

NoFour(b) == ~FourInARow(b, PLAYER1) /\ ~FourInARow(b, PLAYER2)

\* row is the lowest empty cell of column col.
IsLowestEmpty(b, row, col) ==
    /\ b[row][col] = EMPTY
    /\ \A r \in Rows : r > row => b[r][col] # EMPTY

\* The board with a piece of player on the lowest empty cell of column col.
Landed(b, col, player) ==
    [b EXCEPT ![CHOOSE row \in Rows : IsLowestEmpty(b, row, col)][col] = player]

\* Column col is legal and a piece of player dropped there gives player a
\* four in a row.
Completes(b, col, player) ==
    /\ b[0][col] = EMPTY
    /\ FourInARow(Landed(b, col, player), player)

\* The side that moves first in a recorded minimax call, and its opponent.
Mover == IF last.maximizing THEN PLAYER2 ELSE PLAYER1
Opponent == IF last.maximizing THEN PLAYER1 ELSE PLAYER2

SearchReturned == last.op \in {"minimax", "ai_move"}

\* C1: when minimax (any depth, either value of maximizing_player) or
\* ai_move (any difficulty, either seat) returns, the board is cell for
\* cell the board at the moment of the call.
C1_SearchRestoresBoard ==
    SearchReturned => last.after = last.before /\ board = last.before

C1_Witness ==
    /\ last.op = "minimax"
    /\ last.depth >= 2
    /\ last.col # None
    /\ last.before # EmptyBoard
    /\ last.after = last.before

\* C2: the column returned by minimax at depth >= 1 and by ai_move is None
\* or a column of 0..6 whose top cell is empty, and it is None on a board
\* with no legal column.
C2_ColumnLegalOrNone ==
    (last.op = "ai_move" \/ (last.op = "minimax" /\ last.depth >= 1)) =>
        /\ \/ last.col = None
           \/ last.col \in Cols /\ last.before[0][last.col] = EMPTY
        /\ (\A col \in Cols : last.before[0][col] # EMPTY) => last.col = None

C2_Witness ==
    /\ last.op = "minimax"
    /\ last.depth >= 1
    /\ last.col \in Cols
    /\ last.before[0][last.col] = EMPTY
    /\ \E col \in Cols : last.before[0][col] # EMPTY

\* C3: on a board with no four in a row where some legal column completes
\* a four for Player Two, minimax(depth, -inf, +inf, True) at depth >= 1
\* returns a column that completes a four for Player Two, with a score of
\* at least 999999999.
C3_TakesImmediateWin ==
    (/\ last.op = "minimax"
     /\ last.maximizing
     /\ last.depth >= 1
     /\ NoFour(last.before)
     /\ \E col \in Cols : Completes(last.before, col, PLAYER2)) =>
        /\ last.col \in Cols
        /\ Completes(last.before, last.col, PLAYER2)
        /\ last.score >= WIN_SCORE

C3_Witness ==
    /\ last.op = "minimax"
    /\ last.maximizing
    /\ last.depth >= 2
    /\ NoFour(last.before)
    /\ last.col \in Cols
    /\ Completes(last.before, last.col, PLAYER2)
    /\ last.score >= WIN_SCORE

\* C4 as stated: on a board where a legal drop of the opponent of the side
\* to move would complete a four, minimax at depth >= 2 returns the column
\* of that drop.
C4_BlocksEveryThreat ==
    (last.op = "minimax" /\ last.depth >= 2) =>
        \A col \in Cols :
            (~FourInARow(last.before, Opponent) /\ Completes(last.before, col, Opponent))
                => last.col = col

\* C4, amended: on a board with no four in a row where the side to move has
\* no column that completes a four of its own, exactly one column completes
\* a four for its opponent, and the opponent has no completing column left
\* once the side to move has dropped there, minimax at depth >= 2 returns
\* that column.
C4_SingleThreat(col) ==
    /\ NoFour(last.before)
    /\ \A c \in Cols : ~Completes(last.before, c, Mover)
    /\ \A c \in Cols : Completes(last.before, c, Opponent) <=> c = col
    /\ \A c \in Cols : ~Completes(Landed(last.before, col, Mover), c, Opponent)

C4_BlocksSingleThreat ==
    (last.op = "minimax" /\ last.depth >= 2) =>
        \A col \in Cols : C4_SingleThreat(col) => last.col = col

C4_Witness ==
    /\ last.op = "minimax"
    /\ last.depth >= 2
    /\ ~last.maximizing
    /\ \E col \in Cols : C4_SingleThreat(col) /\ last.col = col

\* C5: in every state of the game loop, and on every board a running
\* search passes through, no cell is occupied while the cell directly below
\* it is empty.
C5_GravityEverywhere ==
    /\ \A row \in 0 .. (BOARD_HEIGHT - 2), col \in Cols :
           board[row][col] # EMPTY => board[row + 1][col] # EMPTY
    /\ last.trace.gravity

C5_Witness ==
    /\ last.op = "ai_move"
    /\ last.col # None
    /\ last.before # EmptyBoard
    /\ \E col \in Cols : board[BOARD_HEIGHT - 2][col] # EMPTY

\* C6: on a board that satisfies gravity, drop_piece(col, player) on a
\* column whose top cell is empty sets the lowest empty cell of the column
\* to player, returns the row of that cell and changes no other cell.
C6_DropPieceLowestEmpty ==
    (/\ last.op = "drop_piece"
     /\ Gravity(last.before)
     /\ last.before[0][last.col] = EMPTY) =>
        /\ last.row \in Rows
        /\ IsLowestEmpty(last.before, last.row, last.col)
        /\ last.after = [last.before EXCEPT ![last.row][last.col] = last.player]

C6_Witness ==
    /\ last.op = "drop_piece"
    /\ Gravity(last.before)
    /\ last.row \in 0 .. (BOARD_HEIGHT - 2)
    /\ last.after[last.row][last.col] = last.player

\* C7: on a board that satisfies gravity, drop_piece(col, player) on a
\* column that is not full followed by undo_move(col) leaves every cell as
\* it was before drop_piece.
C7_DropUndoRestores ==
    (/\ last.op = "drop_undo"
     /\ Gravity(last.before)
     /\ last.before[0][last.col] = EMPTY) =>
        last.after = last.before

C7_Witness ==
    /\ last.op = "drop_undo"
    /\ Gravity(last.before)
    /\ last.row \in 0 .. (BOARD_HEIGHT - 2)
    /\ last.after = last.before

\* C8: check_win(player) is true exactly when player occupies four
\* consecutive cells of one row, one column, one down-right diagonal or one
\* up-right diagonal of the grid.
C8_CheckWinIffFour ==
    last.op = "check_win" =>
        (last.result <=> FourInARow(last.before, last.player))

C8_Witness ==
    /\ last.op = "check_win"
    /\ last.result
    /\ \E row \in 3 .. (BOARD_HEIGHT - 1), col \in 0 .. (BOARD_WIDTH - 4) :
           \A i \in 0 .. 3 : last.before[row - i][col + i] = last.player

\* C9: while no drop animation is in flight, game_over holds exactly when
\* some player has four in a row or row 0 has no empty cell; winner is a
\* player exactly when the game is over and that player has four in a row;
\* winner is None with the game over exactly when the board is full and
\* neither player has four in a row.
C9_OutcomeAgreesWithBoard ==
    ~animating =>
        /\ game_over <=> (\/ FourInARow(board, PLAYER1)
                          \/ FourInARow(board, PLAYER2)
                          \/ \A col \in Cols : board[0][col] # EMPTY)
        /\ \A player \in Players :
               winner = player <=> (game_over /\ FourInARow(board, player))
        /\ (game_over /\ winner = None) <=>
               ((\A col \in Cols : board[0][col] # EMPTY) /\ NoFour(board))

\* A piece that fills the board and completes a four was reported as a win.
C9_Witness ==
    /\ ~animating
    /\ game_over
    /\ \A col \in Cols : board[0][col] # EMPTY
    /\ FourInARow(board, PLAYER2)
    /\ winner = PLAYER2

\* C10: every piece update_animation commits to the board is written to a
\* cell that is empty at that moment and is the lowest empty cell of its
\* column.
C10_CommitsOnLowestEmpty ==
    [][UpdateAnimationLand =>
          /\ drop_col \in Cols
          /\ drop_target_row \in Rows
          /\ IsLowestEmpty(board, drop_target_row, drop_col)
          /\ board' = [board EXCEPT ![drop_target_row][drop_col] = drop_player]]_vars

\* The move that ends the game has been committed on a full board.
C10_Witness ==
    /\ game_over
    /\ ~animating
    /\ drop_col \in Cols
    /\ board[drop_target_row][drop_col] = drop_player
    /\ \A col \in Cols : board[0][col] # EMPTY


\* C11: is_valid_move(col) answers True exactly when col is one of the
\* columns 0 .. 6 and the top cell of that column is empty, and answers
\* False, without raising, for every other integer col.
C11_LegalIffInRangeAndTopEmpty ==
    last.op = "is_valid_move" =>
        last.result = IF last.col \in Cols /\ last.before[0][last.col] = EMPTY
                      THEN "True" ELSE "False"

\* C12: a move applied to a full column reports failure (drop_piece returns
\* None, start_drop_animation returns False), writes no cell, and
\* start_drop_animation starts no animation.
C12_FullColumnRefused ==
    /\ (last.op = "drop_piece" /\ ~is_valid_move(last.before, last.col)) =>
           last.row = None /\ board = last.before
    /\ (last.op = "drop_piece" /\ is_valid_move(last.before, last.col)) =>
           last.row \in Rows
    /\ (last.op = "start_drop_animation" /\ ~is_valid_move(last.before, last.col)) =>
           /\ last.result = FALSE
           /\ board = last.before
           /\ ~animating
    /\ (last.op = "start_drop_animation" /\ is_valid_move(last.before, last.col)) =>
           last.result = TRUE /\ animating

C12_Witness ==
    /\ last.op = "start_drop_animation"
    /\ \A row \in Rows : last.before[row][last.col] # EMPTY
    /\ last.result = FALSE

\* The number of deepening iterations that ran in the recorded ai_move call.
IterationsRun == Min(last.iters, DIFFICULTY_LEVELS[last.difficulty])

RECURSIVE ReferenceMinimax(_, _, _)
RECURSIVE ReferenceLoop(_, _, _, _, _, _)

ReferenceLoop(b, depth, maximizing_player, k, best, best_col) ==
    IF k > Len(cols_order)
    THEN [score |-> best, col |-> best_col]
    ELSE LET col == cols_order[k]
         IN  IF b[0][col] # EMPTY
             THEN ReferenceLoop(b, depth, maximizing_player, k + 1, best, best_col)
             ELSE LET player == IF maximizing_player THEN PLAYER2 ELSE PLAYER1
                      child == drop_piece(b, col, player).board
                      v == ReferenceMinimax(child, depth - 1, ~maximizing_player).score
                      better == IF maximizing_player THEN v > best ELSE v < best
                  IN  ReferenceLoop(b, depth, maximizing_player, k + 1,
                                    IF better THEN v ELSE best,
                                    IF better THEN col ELSE best_col)

ReferenceArgs == [b : Boards, depth : Nat, maximizing_player : BOOLEAN]

reference_of[a \in ReferenceArgs] ==
    IF check_win(a.b, PLAYER2) THEN [score |-> WIN_SCORE + a.depth, col |-> None]
    ELSE IF check_win(a.b, PLAYER1) THEN [score |-> (-WIN_SCORE) - a.depth, col |-> None]
    ELSE IF is_board_full(a.b) THEN [score |-> 0, col |-> None]
    ELSE IF a.depth = 0 THEN [score |-> evaluate_board(a.b), col |-> None]
    ELSE ReferenceLoop(a.b, a.depth, a.maximizing_player, 1,
                       IF a.maximizing_player THEN -Inf ELSE Inf, None)

ReferenceMinimax(b, depth, maximizing_player) ==
    reference_of[[b |-> b, depth |-> depth, maximizing_player |-> maximizing_player]]

\* C15: minimax called with the window (-inf, +inf) at depth >= 1 returns the
\* score and the column of the reference minimax without pruning, which
\* visits the columns in the order 3, 2, 4, 1, 5, 0, 6 and keeps the first
\* column reaching the best score.
C15_SameAsUnprunedSearch ==
    (last.op = "minimax" /\ last.depth >= 1) =>
        \E ref \in {ReferenceMinimax(last.before, last.depth, last.maximizing)} :
            /\ last.score = ref.score
            /\ last.col = ref.col

\* A call at depth 3 in which at least two columns reach the best score of
\* the unpruned search and the first of them in cols_order is returned.
C15_Witness ==
    /\ last.op = "minimax"
    /\ last.depth = 3
    /\ last.col \in Cols
    /\ \E k \in 1 .. Len(cols_order) :
          /\ cols_order[k] # last.col
          /\ is_valid_move(last.before, cols_order[k])
          /\ ReferenceMinimax(drop_piece(last.before, cols_order[k],
                                 IF last.maximizing THEN PLAYER2 ELSE PLAYER1).board,
                              2, ~last.maximizing).score = last.score

(***************************************************************************)
(* Forced wins, for C16.                                                   *)
(***************************************************************************)
RECURSIVE Forces(_, _, _, _)
\* who can bring about a four-in-a-row of its own on board b within n plies,
\* whatever the other player does; to_move drops the next piece.
Forces(b, who, n, to_move) ==
    IF check_win(b, who) THEN TRUE
    ELSE IF check_win(b, Other(who)) \/ is_board_full(b) \/ n = 0 THEN FALSE
    ELSE IF to_move = who
    THEN \E col \in Cols :
            /\ b[0][col] = EMPTY
            /\ Forces(drop_piece(b, col, to_move).board, who, n - 1, Other(to_move))
    ELSE \A col \in Cols :
            b[0][col] = EMPTY =>
                Forces(drop_piece(b, col, to_move).board, who, n - 1, Other(to_move))

\* The least number of plies, at most n, within which who forces its four;
\* None when it cannot within n plies.
PliesToWin(b, who, n, to_move) ==
    LET plies == {k \in 0 .. n : Forces(b, who, k, to_move)}
    IN  IF plies = {} THEN None
        ELSE CHOOSE k \in plies : \A j \in plies : k <= j

\* The plies Player One needs for its four once Player Two has dropped in
\* col, in a search of the recorded depth.
LossAfter(col) ==
    PliesToWin(drop_piece(last.before, col, PLAYER2).board, PLAYER1,
               last.depth - 1, PLAYER1)

\* C16: minimax scores a board Player Two has won 999999999 + depth, a board
\* Player One has won -999999999 - depth and a full board with no four 0.
\* For the maximizer a win forced in n plies scores 999999999 + depth - n, so
\* fewer plies score strictly higher; and when every column loses within the
\* depth, the column returned is one whose loss takes the most plies.
C16_DepthAdjustedScores ==
    last.op = "minimax" =>
        /\ (FourInARow(last.before, PLAYER2) /\ ~FourInARow(last.before, PLAYER1)) =>
               last.score = 999999999 + last.depth
        /\ (FourInARow(last.before, PLAYER1) /\ ~FourInARow(last.before, PLAYER2)) =>
               last.score = (-999999999) - last.depth
        /\ (NoFour(last.before) /\ is_board_full(last.before)) => last.score = 0
        /\ (last.maximizing /\ NoFour(last.before)) =>
               \E n \in {PliesToWin(last.before, PLAYER2, last.depth, PLAYER2)} :
                   n # None => last.score = 999999999 + last.depth - n
        /\ ( /\ last.maximizing
             /\ last.depth >= 1
             /\ NoFour(last.before)
             /\ ~is_board_full(last.before)
             /\ \A col \in Cols :
                   is_valid_move(last.before, col) => LossAfter(col) # None ) =>
               /\ last.col \in Cols
               /\ is_valid_move(last.before, last.col)
               /\ \A col \in Cols :
                     is_valid_move(last.before, col) => LossAfter(col) <= LossAfter(last.col)

\* Player Two loses in every column, in some sooner than in others.
C16_Witness ==
    /\ last.op = "minimax"
    /\ last.maximizing
    /\ last.depth >= 4
    /\ NoFour(last.before)
    /\ \A col \in Cols : is_valid_move(last.before, col) => LossAfter(col) # None
    /\ \E col \in Cols :
          /\ is_valid_move(last.before, col)
          /\ LossAfter(col) < LossAfter(last.col)

\* C17: in every search ai_move starts, each drop_piece(col, ...) of the
\* search loop finds an empty cell, the undo_move(col) of the same loop
\* iteration finds the piece that drop_piece placed on top of column col,
\* and clears it: the board is then the board before the drop_piece.
C17_DropUndoNested ==
    last.op = "ai_move" => last.trace.nested

\* ai_move at hard difficulty ran its seven iterations on a board with a
\* full column and returned a column.
C17_Witness ==
    /\ last.op = "ai_move"
    /\ last.difficulty = "hard"
    /\ last.iters = 7
    /\ last.col \in Cols
    /\ \E col \in Cols : ~is_valid_move(last.before, col)
    /\ last.trace.nested

(***************************************************************************)
(* The lines of the grid, for C18: every start cell and direction whose    *)
(* four cells lie on the grid.                                             *)
(***************************************************************************)
DirectionSeq == <<<<0, 1>>, <<1, 0>>, <<1, 1>>, <<-1, 1>>>>

\* The score of the line number n (start cell and direction), 0 when the
\* line leaves the grid.
LineScore(b, n) ==
    LET row == n \div (BOARD_WIDTH * 4)
        col == (n \div 4) % BOARD_WIDTH
        dir == DirectionSeq[(n % 4) + 1]
    IN  IF (row + 3 * dir[1]) \in Rows /\ (col + 3 * dir[2]) \in Cols
        THEN evaluate_window(<<b[row][col], b[row + dir[1]][col + dir[2]],
                               b[row + 2 * dir[1]][col + 2 * dir[2]],
                               b[row + 3 * dir[1]][col + 3 * dir[2]]>>)
        ELSE 0

RECURSIVE LineSum(_, _, _)
LineSum(b, lo, hi) ==
    IF lo = hi THEN LineScore(b, lo)
    ELSE LET mid == (lo + hi) \div 2
         IN  LineSum(b, lo, mid) + LineSum(b, mid + 1, hi)

\* The number of lines of four cells on the grid.
LineCount ==
    Cardinality({n \in 0 .. (BOARD_HEIGHT * BOARD_WIDTH * 4 - 1) :
        LET row == n \div (BOARD_WIDTH * 4)
            col == (n \div 4) % BOARD_WIDTH
            dir == DirectionSeq[(n % 4) + 1]
        IN  (row + 3 * dir[1]) \in Rows /\ (col + 3 * dir[2]) \in Cols})

\* How many cells of the window hold player's piece.
PiecesIn(window, player) == Cardinality({i \in 1 .. 4 : window[i] = player})

\* The centre bonus: +3 for each Player Two piece of column 3, -3 for each
\* Player One piece.
CentreBonus(b) ==
    3 * Cardinality({row \in Rows : b[row][3] = PLAYER2})
    - 3 * Cardinality({row \in Rows : b[row][3] = PLAYER1})

\* C18: evaluate_board is the sum of the window scores of the 69 lines of
\* four cells plus the centre bonus.  A window with pieces of both players
\* and an empty window score 0; one, two, three, four Player Two pieces alone
\* score 1, 10, 100, 10000; Player One pieces alone score below 0, three of
\* them below -100.
C18_WindowSumPlusCentre ==
    /\ last.op = "evaluate_board" =>
          /\ LineCount = 69
          /\ Len(Windows) = 69
          /\ last.score = LineSum(last.before, 0, BOARD_HEIGHT * BOARD_WIDTH * 4 - 1)
                          + CentreBonus(last.before)
    /\ last.op = "evaluate_window" =>
          LET p1 == PiecesIn(last.window, PLAYER1)
              p2 == PiecesIn(last.window, PLAYER2)
          IN  /\ (p1 > 0 /\ p2 > 0) => last.score = 0
              /\ (p1 = 0 /\ p2 = 0) => last.score = 0
              /\ (p1 = 0 /\ p2 = 1) => last.score = 1
              /\ (p1 = 0 /\ p2 = 2) => last.score = 10
              /\ (p1 = 0 /\ p2 = 3) => last.score = 100
              /\ (p1 = 0 /\ p2 = 4) => last.score = 10000
              /\ (p2 = 0 /\ p1 > 0) => last.score < 0
              /\ (p2 = 0 /\ p1 = 3) => last.score < -100

\* evaluate_board on a board with Player Two's four, pieces of both players
\* in column 3 and a score other than 0.
C18_Witness ==
    /\ last.op = "evaluate_board"
    /\ FourInARow(last.before, PLAYER2)
    /\ \E r1, r2 \in Rows : last.before[r1][3] = PLAYER1 /\ last.before[r2][3] = PLAYER2
    /\ last.score # 0

(***************************************************************************)
(* The games with a fair random draw in easy mode: if ai_move could take   *)
(* its random branch with a given draw again and again, it would at some   *)
(* time take it.                                                           *)
(***************************************************************************)

\* The AI block calls ai_move in easy mode on a board with a legal column.
EasyMove ==
    /\ difficulty = "easy"
    /\ valid_cols(board) # << >>
    /\ \E pick \in Picks(board, difficulty) : AiMoves(pick)

\* The same call when random.random() < 0.3 sends it through random.choice,
\* which draws the pick-th legal column.
RandomMove(pick) ==
    /\ difficulty = "easy"
    /\ valid_cols(board) # << >>
    /\ FirstRandom < RandomMoveChance
    /\ pick \in Picks(board, difficulty)
    /\ AiMoves(pick)

SpecFair == Spec /\ \A pick \in 1 .. BOARD_WIDTH : SF_vars(RandomMove(pick))

\* The recorded call is ai_move in easy mode on a board with a legal column
\* and its column is not the one minimax returns at depth 2.
EasyNotMinimax ==
    /\ last.op = "ai_move"
    /\ last.difficulty = "easy"
    /\ valid_cols(last.before) # << >>
    /\ last.col # minimax(last.before, DIFFICULTY_LEVELS["easy"], -Inf, Inf,
                          last.player = PLAYER2).col

\* C19: in games where easy mode's ai_move is called again and again on
\* boards with a legal column, some call takes the random branch and returns
\* a column that is not the one minimax returns at depth 2; and every column
\* easy mode returns is legal.
C19_RandomBranchTaken ==
    /\ ([]<><<EasyMove>>_vars) => <>EasyNotMinimax
    /\ []((last.op = "ai_move" /\ last.difficulty = "easy" /\ last.col # None) =>
               (last.col \in Cols /\ is_valid_move(last.before, last.col)))

\* C20: the two players never have a four-in-a-row at the same time, neither
\* on the board of the game nor on a board that a search of ai_move passes
\* through; so no board of a search passes both terminal tests of minimax.
C20_NeverBothFour ==
    /\ ~(FourInARow(board, PLAYER1) /\ FourInARow(board, PLAYER2))
    /\ last.op = "ai_move" => last.trace.single

\* AI vs AI: in the frame in which Player Two's winning piece landed,
\* ai_move is called on the board that holds Player Two's four.
C20_Witness ==
    /\ game_over
    /\ winner = PLAYER2
    /\ FourInARow(board, PLAYER2)
    /\ last.op = "ai_move"
    /\ last.col = None
    /\ last.before = board
    /\ mode = "ai_ai"

\* The number of player's pieces on board b.
PieceCount(b, player) ==
    Cardinality({cell \in Rows \X Cols : b[cell[1]][cell[2]] = player})

\* One piece of player was added to board b to give board c.
OnePieceAdded(b, c, player) ==
    \E row \in Rows, col \in Cols :
        /\ b[row][col] = EMPTY
        /\ c = [b EXCEPT ![row][col] = player]

\* C21: moves alternate, Player One first.  A piece that is dropping belongs
\* to current_player; while it drops no other drop starts; current_player
\* changes in a step of the game loop exactly when one piece is written to the
\* board, the piece of the player whose turn it was; and Player One has as
\* many pieces as Player Two when it is Player One's turn, one more when it
\* is Player Two's.
C21_MovesAlternate ==
    /\ [](/\ animating => drop_player = current_player
          /\ PieceCount(board, PLAYER1) - PieceCount(board, PLAYER2)
                = IF current_player = PLAYER1 THEN 0 ELSE 1)
    /\ [][/\ (animating /\ animating') =>
                UNCHANGED <<drop_col, drop_player, drop_target_row>>
          /\ pc # "menu" =>
                /\ (current_player' # current_player) <=> (board' # board)
                /\ board' # board => OnePieceAdded(board, board', current_player)]_vars

\* Player Two is to move, nothing is dropping, and Player One has four pieces
\* on the board to Player Two's three.
C21_Witness ==
    /\ pc = "events"
    /\ ~animating
    /\ current_player = PLAYER2
    /\ PieceCount(board, PLAYER1) = 4
    /\ PieceCount(board, PLAYER2) = 3

\* C22: from the step that sets game_over until reset_game runs, no cell of
\* the board and neither winner nor game_over changes, whatever the frame
\* still does with clicks and with the AI block; and reset_game leaves an
\* empty board, Player One to move, game_over false, winner None and no piece
\* dropping.
C22_FinishedGameIsFrozen ==
    [][/\ (game_over /\ pc # "menu") =>
             /\ board' = board
             /\ winner' = winner
             /\ game_over'
       /\ (pc = "menu" /\ pc' = "update") =>
             /\ board' = EmptyBoard
             /\ current_player' = PLAYER1
             /\ ~game_over'
             /\ winner' = None
             /\ ~animating']_vars

\* The game loop was left with a game won and a drop that a click started
\* in the frame in which the winning piece landed.
C22_Witness ==
    /\ pc = "over"
    /\ game_over
    /\ winner \in Players
    /\ animating
    /\ running

\* C23: on a board with a legal column and no four-in-a-row, ai_move returns
\* a column, not None, at every difficulty, for either player, and however
\* early the time limit is found exceeded.
C23_AlwaysReturnsColumn ==
    (last.op = "ai_move" /\ valid_cols(last.before) # << >> /\ NoFour(last.before)) =>
        last.col \in Cols

(***************************************************************************)
(* The AI vs AI games: AI vs AI is chosen in show_mode_menu every time.    *)
(* Clicks are left out: run() hands no event to handle_human_input in this *)
(* mode.                                                                   *)
(***************************************************************************)
NextAi ==
    \/ \E d \in Difficulties, k \in 0 .. MaxIter :
          /\ (d = "easy" => k = 0)
          /\ StartGame("ai_ai", d, << >>, 0, k)
    \/ UpdateAnimationFall
    \/ UpdateAnimationBounce
    \/ UpdateAnimationLand
    \/ EventQuit
    \/ EventsDone
    \/ \E pick \in Picks(board, difficulty) : AiMoves(pick)
    \/ AiIdle
    \/ PlayAgain
    \/ Leave

SpecAi == Init /\ [][NextAi]_vars

\* The AI block of a frame is left: run_ai_move returned, or was not called.
AiBlockDone == pc = "ai" /\ pc' = AfterFrame

\* The same with a game loop that keeps running: each frame goes through
\* update_animation, the event loop and the AI block, and a piece that is
\* dropping reaches its target row, bounces once and lands.
SpecAiLive ==
    /\ SpecAi
    /\ WF_vars(UpdateAnimationFall)
    /\ SF_vars(UpdateAnimationBounce)
    /\ SF_vars(UpdateAnimationLand)
    /\ WF_vars(EventsDone)
    /\ WF_pc(AiBlockDone)

\* The game loop of an AI vs AI game is running.
InAiGame == mode = "ai_ai" /\ pc \in {"update", "events", "ai"}

Magnitude(x) == IF x < 0 THEN -x ELSE x

\* C25: the absolute value of evaluate_board is below 999999999 on every
\* board: no window scores more than 10000 in absolute value, the board has
\* 69 windows and the centre bonus is at most 3 per row, so every heuristic
\* score lies strictly between the score minimax returns for a loss and the
\* one it returns for a win, at every depth of the search.
C25_HeuristicBelowWinScore ==
    /\ last.op = "evaluate_window" => Magnitude(last.score) <= 10000
    /\ last.op = "evaluate_board" =>
          /\ Magnitude(last.score) <= Len(Windows) * 10000 + 3 * BOARD_HEIGHT
          /\ Len(Windows) * 10000 + 3 * BOARD_HEIGHT < WIN_SCORE
          /\ Magnitude(last.score) < WIN_SCORE
          /\ \A depth \in 0 .. DIFFICULTY_LEVELS["hard"] :
                LossScore(depth) < last.score /\ last.score < WinScore(depth)

\* evaluate_board on a board where a player has four in a row: the score has
\* the magnitude of a window of four, the largest a window contributes.
C25_Witness ==
    /\ last.op = "evaluate_board"
    /\ \E player \in Players : FourInARow(last.before, player)
    /\ Magnitude(last.score) >= 10000

=========================================================================
